---- MODULE Spec2Model ----
(***************************************************************************)
(* Redeem request engine of interbtc-js (DefaultRedeemAPI): allocation of  *)
(* an amount over vaults, batch submission (atomic / non-atomic), the      *)
(* retry recursion of request(), the redeem status derivation and the      *)
(* expiry subscription.                                                    *)
(***************************************************************************)
EXTENDS Integers, Sequences, FiniteSets, TLC

\* ------------------------------------------------------------------ bounds
MaxAmount == 2      \* amounts requested are 1..MaxAmount (satoshi)
MaxVaults == 2      \* length of the vault list
MaxCap == 2         \* capacity of one vault is 0..MaxCap
MaxRetries == 1     \* options.retries is at most MaxRetries
MaxRounds == MaxRetries + 2   \* rounds of one call are cut at this depth
MaxHeight == 3      \* block heights are 0..MaxHeight
MaxPeriod == 2      \* redeem periods are 0..MaxPeriod
MaxReqs == 1        \* redeem requests of the watched account

Min(a, b) == IF a < b THEN a ELSE b
Max(a, b) == IF a > b THEN a ELSE b

\* ------------------------------------------------------------- JS values
\* Values a promise can reject with.
ErrorObj(m) == [kind |-> "Error", text |-> m]
Str(m) == [kind |-> "string", text |-> m]
Undefined == [kind |-> "undefined", text |-> ""]
NoValue == [kind |-> "none", text |-> ""]

ACCOUNT_NOT_SET_ERROR_MESSAGE == Str("cannot sign transaction without setting account")

\* catch (e) { return Promise.reject(e.message); }
\* e.message of an Error is its message, of a string is undefined, and
\* reading a property of undefined throws a TypeError out of the catch block.
CatchReject(e) ==
    IF e.kind = "Error" THEN Str(e.text)
    ELSE IF e.kind = "string" THEN Undefined
    ELSE ErrorObj("TypeError")

\* The rejection seen by the caller after the error passed n enclosing catches.
RECURSIVE Unwind(_, _)
Unwind(e, n) == IF n = 0 THEN e ELSE Unwind(CatchReject(e), n - 1)

\* ------------------------------------------------------------- Allocator
RECURSIVE SumCaps(_)
SumCaps(vaults) ==
    IF vaults = <<>> THEN 0 ELSE Head(vaults) + SumCaps(Tail(vaults))

\* Mutant: a vault is used only for what the vaults after it cannot cover.
RECURSIVE GreedyBackLoaded(_, _, _)
GreedyBackLoaded(vaults, i, remaining) ==
    IF remaining = 0 \/ i > Len(vaults) THEN <<>>
    ELSE LET after == SumCaps(SubSeq(vaults, i + 1, Len(vaults)))
             a == Min(vaults[i], Max(0, remaining - after))
         IN  IF a = 0 THEN GreedyBackLoaded(vaults, i + 1, remaining)
             ELSE <<[vault |-> i, amount |-> a]>>
                      \o GreedyBackLoaded(vaults, i + 1, remaining - a)

\* Greedy in list order: full capacity of each vault until the target is
\* reached, the last vault used gets the exact remainder, empty vaults are
\* skipped.
RECURSIVE Greedy(_, _, _)
Greedy(vaults, i, remaining) ==
    IF remaining = 0 \/ i > Len(vaults) THEN <<>>
    ELSE IF vaults[i] = 0 THEN Greedy(vaults, i + 1, remaining)
    ELSE LET a == Min(vaults[i], remaining)
         IN  <<[vault |-> i, amount |-> a]>> \o Greedy(vaults, i + 1, remaining - a)

\* Mutant: no capacity check, whatever fits is allocated silently.
allocateNoCheck(vaults, amountToAllocate) ==
    [ok |-> TRUE, value |-> Greedy(vaults, 1, amountToAllocate), error |-> NoValue]

\* Mutant: the last vault used also gets its full capacity.
RECURSIVE GreedyFull(_, _, _)
GreedyFull(vaults, i, remaining) ==
    IF remaining <= 0 \/ i > Len(vaults) THEN <<>>
    ELSE IF vaults[i] = 0 THEN GreedyFull(vaults, i + 1, remaining)
    ELSE <<[vault |-> i, amount |-> vaults[i]]>>
             \o GreedyFull(vaults, i + 1, remaining - vaults[i])

allocateFullCapacity(vaults, amountToAllocate) ==
    IF SumCaps(vaults) < amountToAllocate
    THEN [ok |-> FALSE, value |-> <<>>, error |-> ErrorObj("InsufficientCapacity")]
    ELSE [ok |-> TRUE, value |-> GreedyFull(vaults, 1, amountToAllocate), error |-> NoValue]

allocateAmountsToVaults(vaults, amountToAllocate) ==
    IF SumCaps(vaults) < amountToAllocate
    THEN [ok |-> FALSE, value |-> <<>>, error |-> ErrorObj("InsufficientCapacity")]
    ELSE [ok |-> TRUE, value |-> Greedy(vaults, 1, amountToAllocate), error |-> NoValue]

\* ------------------------------------------------------------------ state
VARIABLES
    account,          \* this.account is set
    pc,               \* position of the request() call
    amount0,          \* amountSat of the top-level call
    amountSat,        \* amountSat of the current round
    atomic,           \* options.atomic of the call
    retries,          \* retries of the current round
    retries0,         \* options.retries of the top-level call
    supplied,         \* options.availableVaults was given by the caller
    options,          \* the options argument of the top-level call
    availableVaults,  \* vault list used by the call (capacity per position)
    round,            \* recursion depth of the current round, from 1
    amountsPerVault,  \* allocation of the current round
    events,           \* result.events of the submission of the current round
    results,          \* results accumulated over the rounds, newest first
    rejection,        \* value the call rejected with
    created,          \* ledger: redeem requests in the best block, id = index
    finalizedUpTo,    \* ledger: ids 1..finalizedUpTo exist at the finalized head
    broadcasts,       \* transactions broadcast by the call
    discoveries,      \* vault discoveries made by the call
    subLog            \* one entry per submission of the call

engineVars == <<account, pc, amount0, amountSat, atomic, retries, retries0, supplied,
                options, availableVaults, round, amountsPerVault, events, results, rejection,
                created, finalizedUpTo, broadcasts, discoveries, subLog>>

\* Inputs and output of one status derivation.
VARIABLES
    sReq,             \* the request: status tag, opentime, period
    sGlobalPeriod,    \* globalRedeemPeriod
    sHeight,          \* currentActiveBlockNumber
    sResult           \* the RedeemStatus derived, "none" before the call

statusVars == <<sReq, sGlobalPeriod, sHeight, sResult>>

\* The expiry subscription and the ledger it reads.
VARIABLES
    wRequests,        \* ledger: the redeem requests of the account, by id
    redeemPeriod,     \* ledger: redeem.redeemPeriod
    subPc,            \* state of the subscribeToRedeemExpiry call
    height,           \* number of the last finalized head notified
    handlers,         \* position of the handler started for each head
    expired,          \* the Set `expired`: the key objects added to it
    callCount,        \* invocations of the callback, per request id
    firedAt           \* (id, height, state of the subscription) of every
                      \* invocation of the callback

watchVars == <<wRequests, redeemPeriod, subPc, height, handlers, expired, callCount,
               firedAt>>

\* One call of a transaction-submitting operation other than request().
VARIABLES
    xOp,              \* the operation called, "none" before the call
    xPc,              \* position of the call
    xArgs,            \* btcTxId, merkleProof and rawTx as passed by the caller
    xProof,           \* where the (merkleProof, rawTx) pair sent comes from
    xCalls,           \* the network calls made by the call, in order
    xSent,            \* outcome of the submission: "no", "threw", "returned"
    xEvents,          \* result.events of the submission
    xResult           \* value the call resolved or rejected with

execVars == <<xOp, xPc, xArgs, xProof, xCalls, xSent, xEvents, xResult>>

\* One use of stripHexPrefix, applied once and applied again to its result.
VARIABLES
    hexIn,            \* the string passed
    hexOnce,          \* stripHexPrefix(hexIn)
    hexTwice,         \* stripHexPrefix(stripHexPrefix(hexIn))
    hexDone           \* number of applications made

hexVars == <<hexIn, hexOnce, hexTwice, hexDone>>

\* Several expiry subscriptions of one API object on the same account.
VARIABLES
    subscriptions,    \* per subscribeToRedeemExpiry call: its Set `expired`,
                      \* the heads its handler evaluated, its callback's calls
    mHeight           \* number of the last finalized head

subsVars == <<subscriptions, mHeight>>

\* One call of DefaultReplaceAPI.request.
VARIABLES
    rPc,              \* position of the call
    rAmount,          \* the amount passed
    rEvents,          \* result.events of the submission
    rResult           \* value the call resolved or rejected with

replaceVars == <<rPc, rAmount, rEvents, rResult>>

vars == <<engineVars, statusVars, watchVars, execVars, hexVars, subsVars, replaceVars>>

Amounts == 1..MaxAmount
RetryOptions == 0..MaxRetries

\* The options argument: undefined, or an object in which each of the fields
\* atomic, retries and availableVaults is given or left out. A field left out
\* reads as undefined; its slot holds FALSE / 0 here. The calls explored that
\* give retries also give atomic.
OptionFields == {"atomic", "retries", "availableVaults"}
NoOptions == [defined |-> FALSE, given |-> {}, atomic |-> FALSE, retries |-> 0]
RequestOptions ==
    {NoOptions} \cup
    {o \in [defined : {TRUE}, given : SUBSET OptionFields, atomic : BOOLEAN,
            retries : RetryOptions] :
        /\ "atomic" \notin o.given => ~o.atomic
        /\ "retries" \notin o.given => o.retries = 0
        /\ "retries" \in o.given => "atomic" \in o.given}

\* part_000:188  !!options?.atomic
AtomicDefaultTrue(o) == IF o.defined /\ "atomic" \in o.given THEN o.atomic ELSE TRUE
AtomicOf(o) == IF o.defined /\ "atomic" \in o.given THEN o.atomic ELSE FALSE

\* part_000:189  options?.retries || 0
RetriesDefaultOne(o) ==
    IF o.defined /\ "retries" \in o.given /\ o.retries # 0 THEN o.retries ELSE 1
RetriesOf(o) ==
    IF o.defined /\ "retries" \in o.given /\ o.retries # 0 THEN o.retries ELSE 0

\* part_000:187  options?.availableVaults || ...: the list is taken from the
\* options when it is given (a Map is truthy, also when it is empty).
SuppliedOf(o) == o.defined /\ "availableVaults" \in o.given
VaultLists == UNION {[1..n -> 0..MaxCap] : n \in 0..MaxVaults}

Reverse(s) == [i \in 1..Len(s) |-> s[Len(s) + 1 - i]]

RECURSIVE SumAmountBtc(_)
SumAmountBtc(res) ==
    IF res = <<>> THEN 0 ELSE Head(res).redeemRequest.amount_btc + SumAmountBtc(Tail(res))

\* part_000:217  atomic ? batchAll : batch
BatchAlwaysBatch(isAtomic) == "batch"
BatchCall(isAtomic) == IF isAtomic THEN "batchAll" ELSE "batch"

\* part_000:358-365  the record stored under an id at the finalized head; an id
\* the finalized state does not hold yet decodes to the default record.
DefaultRedeemRequest == [vault |-> 0, amount_btc |-> 0]
RequestAtFinalizedHead(id) ==
    IF id <= finalizedUpTo
    THEN [vault |-> created[id].vault, amount_btc |-> created[id].amount_btc]
    ELSE DefaultRedeemRequest
getRequestsById(redeemIds) == [i \in 1..Len(redeemIds) |-> RequestAtFinalizedHead(redeemIds[i])]

\* part_000:222  ids.map((id, idx) => ({ id, redeemRequest: redeemRequests[idx] }))
PairFirstOnly(redeemIds, redeemRequests) ==
    [i \in 1..Min(1, Len(redeemIds)) |-> [id |-> redeemIds[i], redeemRequest |-> redeemRequests[i]]]
\* Mutant: the records are paired with the ids in the opposite order.
PairCrossed(redeemIds, redeemRequests) ==
    [i \in 1..Len(redeemIds) |->
        [id |-> redeemIds[i], redeemRequest |-> redeemRequests[Len(redeemIds) + 1 - i]]]
PairResults(redeemIds, redeemRequests) ==
    [i \in 1..Len(redeemIds) |-> [id |-> redeemIds[i], redeemRequest |-> redeemRequests[i]]]

\* part_000:196  retries: retries - 1
SameRetries(r) == r
NextRetries(r) == r - 1

\* Mutant: the subtraction the other way round.
RemainderSwapped(amt, successfulSum) == successfulSum - amt

\* part_000:193  amountSat.sub(successfulSum)
Remainder(amt, successfulSum) == amt - successfulSum

\* Mutant: the retry asks for the whole amount of the round again.
SameTarget(amt, remainder) == amt

\* part_000:196  this.request(remainder, btcAddressEnc, {availableVaults, atomic, ...}):
\* the amount, the atomicity flag and the vault list of the next round.
NextTarget(amt, remainder) == remainder

\* Mutant: the retry falls back to the default of atomic.
RetryNonAtomic(isAtomic) == FALSE

RetryAtomic(isAtomic) == isAtomic

RetryVaults(vaultList) == vaultList

\* Mutants: the pairs of this round are dropped; they are put first.
DropEarlier(later, result) == later
ConcatReversed(later, result) == result \o later

\* part_000:196  (await this.request(...)).concat(result): the pairs of the
\* later rounds, then those of this round.
ConcatResults(later, result) == later \o result

\* Mutant: only the first entry of the allocation is put in the batch.
TxesFirstOnly(alloc) == SubSeq(alloc, 1, Min(1, Len(alloc)))

\* part_000:213-216  one requestRedeem call per entry of amountsPerVault
Txes(alloc) == alloc

\* part_000:194  remainder.eqn(0) || retries === 0
StopOnlyWhenFulfilled(remainder, r) == remainder = 0
Returns(remainder, r) == remainder = 0 \/ r = 0

EngineInit ==
    /\ account \in BOOLEAN
    /\ pc = "idle"
    /\ amount0 = 0 /\ amountSat = 0
    /\ atomic = FALSE
    /\ retries = 0 /\ retries0 = 0
    /\ supplied = FALSE
    /\ options = NoOptions
    /\ availableVaults = <<>>
    /\ round = 0
    /\ amountsPerVault = <<>>
    /\ events = <<>>
    /\ results = <<>>
    /\ rejection = NoValue
    /\ created = <<>>
    /\ finalizedUpTo = 0
    /\ broadcasts = 0
    /\ discoveries = 0
    /\ subLog = <<>>

ReqIds == 1..MaxReqs
Heights == 0..MaxHeight
Periods == 0..MaxPeriod
StatusTags == {"Pending", "Completed", "Reimbursed", "Retried"}
RedeemRequests == [status : StatusTags, opentime : Heights, period : Periods]

\* No status derivation is under way.
StatusIdle ==
    /\ sReq = [status |-> "Pending", opentime |-> 0, period |-> 0]
    /\ sGlobalPeriod = 0
    /\ sHeight = 0
    /\ sResult = "none"

\* No expiry subscription exists.
WatchIdle ==
    /\ wRequests = [id \in ReqIds |-> [status |-> "Pending", opentime |-> 0, period |-> 0]]
    /\ redeemPeriod = 0
    /\ subPc = "none"
    /\ height = 0
    /\ handlers = [h \in 1..MaxHeight |-> "none"]
    /\ expired = {}
    /\ callCount = [id \in ReqIds |-> 0]
    /\ firedAt = {}

\* No other operation has been called.
ExecIdle ==
    /\ xOp = "none"
    /\ xPc = "idle"
    /\ xArgs = [btcTxId |-> "none", merkleProof |-> FALSE, rawTx |-> FALSE]
    /\ xProof = "none"
    /\ xCalls = <<>>
    /\ xSent = "no"
    /\ xEvents = <<>>
    /\ xResult = NoValue

\* stripHexPrefix is not in use.
HexIdle ==
    /\ hexIn = <<>>
    /\ hexOnce = <<>>
    /\ hexTwice = <<>>
    /\ hexDone = 0

\* No second subscription is in use.
SubsIdle ==
    /\ subscriptions = <<>>
    /\ mHeight = 0

\* DefaultReplaceAPI.request is not in use.
ReplaceIdle ==
    /\ rPc = "idle"
    /\ rAmount = 0
    /\ rEvents = <<>>
    /\ rResult = NoValue

Init == EngineInit /\ StatusIdle /\ WatchIdle /\ ExecIdle /\ HexIdle /\ SubsIdle /\ ReplaceIdle

\* part_000:367-369
setAccount ==
    /\ UNCHANGED <<statusVars, watchVars, execVars, hexVars, subsVars, replaceVars>>
    /\ pc = "idle"
    /\ ~account
    /\ account' = TRUE
    /\ UNCHANGED <<pc, amount0, amountSat, atomic, retries, retries0, supplied, options,
                   availableVaults, round, amountsPerVault, events, results, rejection,
                   created, finalizedUpTo, broadcasts, discoveries, subLog>>

\* Mutant: the throw of the allocator is swallowed and the round goes on.
StartRoundSwallow(vaultList, amt, d) ==
    /\ amountsPerVault' = allocateAmountsToVaults(vaultList, amt).value
    /\ pc' = "send"
    /\ rejection' = rejection

\* part_000:188-190 and the synchronous start of requestAdvanced: the round at
\* depth d allocates amt over the vault list; a throw of the allocator is
\* caught by the d enclosing try blocks of request().
StartRound(vaultList, amt, d) ==
    LET a == allocateAmountsToVaults(vaultList, amt)
    IN  IF a.ok
        THEN /\ amountsPerVault' = a.value
             /\ pc' = "send"
             /\ rejection' = rejection
        ELSE /\ amountsPerVault' = <<>>
             /\ pc' = "rejected"
             /\ rejection' = Unwind(a.error, d)

\* part_000:181-190  request(amountSat, btcAddressEnc, options)
requestCall(amt, o) ==
    /\ UNCHANGED <<statusVars, watchVars, execVars, hexVars, subsVars, replaceVars>>
    /\ pc = "idle"
    /\
      LET at == AtomicOf(o)
          r == RetriesOf(o)
          sup == SuppliedOf(o)
      IN
        /\ options' = o
        /\ amount0' = amt /\ amountSat' = amt
        /\ atomic' = at
        /\ retries' = r /\ retries0' = r
        /\ supplied' = sup
        /\ round' = 1
        /\ IF ~account
           THEN /\ pc' = "rejected"
                /\ rejection' = ACCOUNT_NOT_SET_ERROR_MESSAGE
                /\ UNCHANGED <<availableVaults, amountsPerVault>>
           ELSE IF sup
           THEN \E vl \in VaultLists :
                    /\ availableVaults' = vl
                    /\ StartRound(vl, amt, 1)
           ELSE /\ pc' = "discover"
                /\ UNCHANGED <<availableVaults, amountsPerVault, rejection>>
    /\ UNCHANGED <<account, events, results, created, finalizedUpTo, broadcasts,
                   discoveries, subLog>>

\* A call of request() with retries left out, 0 or positive.
request == \E amt \in Amounts, o \in RequestOptions : requestCall(amt, o)

\* The options of a call that passes a negative number as retries
\* (RequestOptions.retries is a number).
NegativeRetryOptions ==
    {o \in [defined : {TRUE}, given : SUBSET OptionFields, atomic : BOOLEAN,
            retries : {0 - n : n \in 1..MaxRetries}] :
        {"atomic", "retries"} \subseteq o.given}

\* A call of request() with a negative retries.
requestNegativeRetries ==
    \E amt \in Amounts, o \in NegativeRetryOptions : requestCall(amt, o)

\* part_000:187  await this.vaultsAPI.getVaultsWithIssuableTokens()
discover ==
    /\ UNCHANGED <<statusVars, watchVars, execVars, hexVars, subsVars, replaceVars>>
    /\ pc = "discover"
    /\ discoveries' = discoveries + 1
    /\ \E vl \in VaultLists :
        /\ availableVaults' = vl
        /\ StartRound(vl, amountSat, 1)
    /\ UNCHANGED <<account, amount0, amountSat, atomic, retries, retries0, supplied, options,
                   round, events, results, created, finalizedUpTo, broadcasts, subLog>>

\* The ledger executing the batch: the sub-requests of ok (positions of the
\* allocation) are created in allocation order, each confirmed for at most cap.
NewRecords(alloc, ok, cap, d) ==
    LET kept == SelectSeq([i \in 1..Len(alloc) |-> [pos |-> i, e |-> alloc[i]]],
                          LAMBDA x : x.pos \in ok)
    IN  [i \in 1..Len(kept) |->
            [vault |-> kept[i].e.vault, requested |-> kept[i].e.amount,
             amount_btc |-> Min(kept[i].e.amount, cap), round |-> d]]

\* part_000:219  the event type passed to sendLogged as the event to await
SuccessEventType == "issue.RequestIssue"

\* part_000:177-179  the event type the ids are decoded from
DecodedEventType == "redeem.RequestRedeem"

\* Ghost record of one submission: the round's target, the entries of its
\* allocation, the events awaited and decoded, the sub-requests the ledger
\* failed, whether sendLogged threw
\* and the value it threw, and (set by fetch) the pairs returned and the amount
\* they confirm; the vault list and the flag of the round and the calls in its
\* batch.
LogEntry(ok, threw, e) ==
    [target |-> amountSat,
     awaited |-> SuccessEventType,
     decoded |-> DecodedEventType,
     vaults |-> availableVaults,
     atomic |-> atomic,
     calls |-> Len(Txes(amountsPerVault)),
     error |-> IF threw THEN e ELSE NoValue,
     entries |-> Len(amountsPerVault),
     nonzero |-> Cardinality({i \in 1..Len(amountsPerVault) : amountsPerVault[i].amount # 0}),
     failed |-> Len(amountsPerVault) - Cardinality(ok),
     thrown |-> threw, fetched |-> FALSE, returned |-> 0, fulfilled |-> 0]

\* Mutant: a failed submission is submitted again.
RetrySubmission(e, d) ==
    /\ pc' = "send"
    /\ rejection' = rejection

\* part_000:223-225 and 198-200  the error thrown by sendLogged is caught by
\* requestAdvanced and then by the d enclosing try blocks of request().
RejectSubmission(e, d) ==
    /\ pc' = "rejected"
    /\ rejection' = Unwind(CatchReject(e), d)

\* The events of a batch that was not voided: one RequestRedeem event per
\* request created, then the event that ends the batch.
EmittedEvents(newIds, all) ==
    [i \in 1..Len(newIds) |-> [name |-> "redeem.RequestRedeem", id |-> newIds[i]]]
        \o <<[name |-> IF all THEN "utility.BatchCompleted" ELSE "utility.BatchInterrupted",
              id |-> 0]>>

\* part_000:177-179  getRequestIdsFromEvents(events, redeem.RequestRedeem, api):
\* the id of every RequestRedeem event, in the order of the events.
getRequestIdsFromEvents(evs) ==
    LET found == SelectSeq(evs, LAMBDA e : e.name = DecodedEventType)
    IN  [i \in 1..Len(found) |-> found[i].id]

\* The values sendLogged throws when the ledger rejects a submission: an Error
\* object, or a string passed to Promise.reject.
LedgerErrors == {ErrorObj("TxRejected"), Str("TxRejected")}

\* Transaction.sendLogged returns the events of the transaction, or throws
\* when the ledger rejected it: the transaction itself, or a batchAll voided
\* by a failing call.
SendLoggedThrows(txRejected, voided) == txRejected \/ voided

\* part_000:203-219  requestAdvanced up to the end of sendLogged
sendLogged ==
    /\ UNCHANGED <<statusVars, watchVars, execVars, hexVars, subsVars, replaceVars>>
    /\ pc = "send"
    /\ broadcasts' = broadcasts + 1
    /\ \E ok \in SUBSET (1..Len(Txes(amountsPerVault))), cap \in {1, MaxAmount},
          rev \in BOOLEAN, txRejected \in BOOLEAN, e \in LedgerErrors :
        LET txes == Txes(amountsPerVault)
            all == ok = 1..Len(txes)
            voided == BatchCall(atomic) = "batchAll" /\ ~all
            new == NewRecords(txes, ok, cap, round)
            newIds == [i \in 1..Len(new) |-> Len(created) + i]
        IN  IF SendLoggedThrows(txRejected, voided)
            THEN /\ (txRejected => ok = {} /\ cap = MaxAmount /\ ~rev)
                 /\ (voided => cap = MaxAmount /\ ~rev)
                 /\ RejectSubmission(e, round)
                 /\ subLog' = Append(subLog, LogEntry(ok, TRUE, e))
                 /\ UNCHANGED <<created, events>>
            ELSE /\ (Len(new) < 2 => ~rev)
                 /\ e = ErrorObj("TxRejected")
                 /\ created' = created \o new
                 /\ events' = EmittedEvents(IF rev THEN Reverse(newIds) ELSE newIds, all)
                 /\ pc' = "fetch"
                 /\ subLog' = Append(subLog, LogEntry(ok, FALSE, e))
                 /\ UNCHANGED rejection
    /\ UNCHANGED <<account, amount0, amountSat, atomic, retries, retries0, supplied, options,
                   availableVaults, round, amountsPerVault, results, finalizedUpTo,
                   discoveries>>

\* The finalized head advances to the best block.
finalize ==
    /\ UNCHANGED <<statusVars, watchVars, execVars, hexVars, subsVars, replaceVars>>
    /\ finalizedUpTo < Len(created)
    /\ finalizedUpTo' = Len(created)
    /\ UNCHANGED <<account, pc, amount0, amountSat, atomic, retries, retries0, supplied,
                   options, availableVaults, round, amountsPerVault, events, results,
                   rejection, created, broadcasts, discoveries, subLog>>

\* part_000:220-222 and 192-197  the records are fetched, the remainder is
\* computed, and the call returns or recurses on the remainder.
fetch ==
    /\ UNCHANGED <<statusVars, watchVars, execVars, hexVars, subsVars, replaceVars>>
    /\ pc = "fetch"
    /\ LET ids == getRequestIdsFromEvents(events)
           result == PairResults(ids, getRequestsById(ids))
           successfulSum == SumAmountBtc(result)
           remainder == Remainder(amountSat, successfulSum)
       IN  /\ results' = ConcatResults(result, results)
           /\ subLog' = [subLog EXCEPT ![Len(subLog)].fetched = TRUE,
                                        ![Len(subLog)].returned = Len(result),
                                        ![Len(subLog)].fulfilled = successfulSum]
           /\ IF Returns(remainder, retries)
              THEN /\ pc' = "resolved"
                   /\ UNCHANGED <<amountSat, retries, round, amountsPerVault, rejection,
                                  atomic, availableVaults>>
              ELSE /\ round < MaxRounds
                   /\ amountSat' = NextTarget(amountSat, remainder)
                   /\ atomic' = RetryAtomic(atomic)
                   /\ availableVaults' = RetryVaults(availableVaults)
                   /\ retries' = NextRetries(retries)
                   /\ round' = round + 1
                   /\ StartRound(RetryVaults(availableVaults),
                                 NextTarget(amountSat, remainder), round + 1)
    /\ UNCHANGED <<account, amount0, retries0, supplied, options, events, created,
                   finalizedUpTo, broadcasts, discoveries>>

Next ==
    \/ setAccount
    \/ request
    \/ discover
    \/ sendLogged
    \/ finalize
    \/ fetch

Spec == Init /\ [][Next]_vars

\* The calls of request() with a negative retries.
NextNegativeRetries ==
    \/ setAccount
    \/ requestNegativeRetries
    \/ discover
    \/ sendLogged
    \/ finalize
    \/ fetch

SpecNegativeRetries == Init /\ [][NextNegativeRetries]_vars

\* ------------------------------------------------------- Status Resolver
\* Mutant: the deadline is compared before the status tag is looked at.
parseHeightFirst(req, globalRedeemPeriod, currentActiveBlockNumber) ==
    IF currentActiveBlockNumber >= req.opentime + Max(req.period, globalRedeemPeriod)
    THEN "Expired"
    ELSE IF req.status = "Pending" THEN "PendingWithBtcTxNotFound"
    ELSE req.status

\* Mutant: a request expires only after its deadline block.
parseStrictlyAfter(req, globalRedeemPeriod, currentActiveBlockNumber) ==
    IF req.status = "Pending"
    THEN IF currentActiveBlockNumber > req.opentime + Max(req.period, globalRedeemPeriod)
         THEN "Expired"
         ELSE "PendingWithBtcTxNotFound"
    ELSE req.status

\* Mutant: the deadline is counted with the global period alone.
parseGlobalPeriodOnly(req, globalRedeemPeriod, currentActiveBlockNumber) ==
    IF req.status = "Pending"
    THEN IF currentActiveBlockNumber >= req.opentime + globalRedeemPeriod
         THEN "Expired"
         ELSE "PendingWithBtcTxNotFound"
    ELSE req.status

\* parseRedeemRequestStatus(req, globalRedeemPeriod, currentActiveBlockNumber):
\* a terminal tag is the status; a pending request is Expired from block
\* opentime + max(period, globalRedeemPeriod) on.
parseRedeemRequestStatus(req, globalRedeemPeriod, currentActiveBlockNumber) ==
    IF req.status = "Pending"
    THEN IF currentActiveBlockNumber >= req.opentime + Max(req.period, globalRedeemPeriod)
         THEN "Expired"
         ELSE "PendingWithBtcTxNotFound"
    ELSE req.status

\* Any request, global period and block number.
StatusInit ==
    /\ sReq \in RedeemRequests
    /\ sGlobalPeriod \in Periods
    /\ sHeight \in Heights
    /\ sResult = "none"

\* encoding.test.ts:88  parseRedeemRequestStatus(mockRequest, globalRedeemPeriod, currentBlock)
parseStatus ==
    /\ sResult = "none"
    /\ sResult' = parseRedeemRequestStatus(sReq, sGlobalPeriod, sHeight)
    /\ UNCHANGED <<sReq, sGlobalPeriod, sHeight>>
    /\ UNCHANGED <<engineVars, watchVars, execVars, hexVars, subsVars, replaceVars>>

InitStatus == EngineInit /\ StatusInit /\ WatchIdle /\ ExecIdle /\ HexIdle /\ SubsIdle
    /\ ReplaceIdle

NextStatus == parseStatus

SpecStatus == InitStatus /\ [][NextStatus]_vars

\* -------------------------------------------------------- Expiry Watcher
\* The ledger of the watched account: requests opened at or before the
\* subscription, and the global redeem period.
WatchInit ==
    /\ wRequests \in [ReqIds -> RedeemRequests]
    /\ \A id \in ReqIds : wRequests[id].opentime = 0
    /\ redeemPeriod \in Periods
    /\ subPc = "none"
    /\ height = 0
    /\ handlers = [h \in 1..MaxHeight |-> "none"]
    /\ expired = {}
    /\ callCount = [id \in ReqIds |-> 0]
    /\ firedAt = {}

InitWatch == EngineInit /\ StatusIdle /\ WatchInit /\ ExecIdle /\ HexIdle /\ SubsIdle
    /\ ReplaceIdle

\* part_000:290-295  the keys of the map are the H256 objects decoded from the
\* response of this call: each call makes new objects. ref names the call
\* (the head whose handler made it).
KeyObject(id, ref) == [hash |-> id, ref |-> ref]

\* part_000:306  expired.has(id): a Set finds an object key by identity.
Has(set, key) == key \in set

\* Mutant: a request is past its period only after the block that ends it.
PastPeriodStrict(req, period, currentParachainBlockHeight) ==
    req.opentime + period < currentParachainBlockHeight

\* part_000:306  request.opentime.add(redeemPeriod).lte(currentParachainBlockHeight)
PastPeriod(req, period, currentParachainBlockHeight) ==
    req.opentime + period <= currentParachainBlockHeight

\* part_000:300-315  the try block holds the await of subscribeFinalizedHeads,
\* not the awaits of the handler: an error thrown in the handler rejects the
\* promise the handler returned, which nothing awaits; the catch block, and
\* its console.log, do not run.
OnHandlerError(error) == "unhandledRejection"

\* Mutant: the error of subscribeFinalizedHeads reaches the caller.
RethrowSubscribeError(error) == "rejected"

\* part_000:313-319  the error is logged and the empty function is returned.
OnSubscribeError(error) == "fallback"

\* part_000:298-301, 312-319  subscribeFinalizedHeads resolves with the
\* unsubscribe function, or throws and the empty function is returned.
subscribe ==
    /\ subPc = "none"
    /\ \E established \in BOOLEAN :
        subPc' = IF established THEN "subscribed"
                 ELSE OnSubscribeError(ErrorObj("SubscriptionFailed"))
    /\ UNCHANGED <<wRequests, redeemPeriod, height, handlers, expired, callCount, firedAt>>
    /\ UNCHANGED <<engineVars, statusVars, execVars, hexVars, subsVars, replaceVars>>

\* part_000:301  a finalized head arrives and its handler starts, up to the
\* await of mapForUser.
newHead ==
    /\ subPc = "subscribed"
    /\ height < MaxHeight
    /\ height' = height + 1
    /\ handlers' = [handlers EXCEPT ![height + 1] = "mapForUser"]
    /\ UNCHANGED <<wRequests, redeemPeriod, subPc, expired, callCount, firedAt>>
    /\ UNCHANGED <<engineVars, statusVars, execVars, hexVars, subsVars, replaceVars>>

\* part_000:302  mapForUser returns, or throws and ends the handler.
mapForUser(h) ==
    /\ handlers[h] = "mapForUser"
    /\ \E next \in {"getRedeemPeriod", OnHandlerError(ErrorObj("QueryFailed"))} :
        handlers' = [handlers EXCEPT ![h] = next]
    /\ UNCHANGED <<wRequests, redeemPeriod, subPc, height, expired, callCount, firedAt>>
    /\ UNCHANGED <<engineVars, statusVars, execVars, hexVars, subsVars, replaceVars>>

\* part_000:303-310  getRedeemPeriod returns and the loop over the requests
\* runs to its end without suspending; or getRedeemPeriod throws.
forEachRequest(h) ==
    /\ handlers[h] = "getRedeemPeriod"
    /\ \/ /\ handlers' = [handlers EXCEPT ![h] = OnHandlerError(ErrorObj("QueryFailed"))]
          /\ UNCHANGED <<expired, callCount, firedAt>>
       \/ LET fire == {id \in ReqIds :
                          /\ PastPeriod(wRequests[id], redeemPeriod, h)
                          /\ ~Has(expired, KeyObject(id, h))}
          IN  /\ handlers' = [handlers EXCEPT ![h] = "done"]
              /\ expired' = expired \cup {KeyObject(id, h) : id \in fire}
              /\ callCount' = [id \in ReqIds |->
                                  IF id \in fire THEN callCount[id] + 1 ELSE callCount[id]]
              /\ firedAt' = firedAt \cup
                     {[id |-> id, height |-> h, subPc |-> subPc] : id \in fire}
    /\ UNCHANGED <<wRequests, redeemPeriod, subPc, height>>
    /\ UNCHANGED <<engineVars, statusVars, execVars, hexVars, subsVars, replaceVars>>

\* The caller calls the function subscribeToRedeemExpiry resolved with: the
\* unsubscribe function of the subscription (part_000:312), which ends the
\* notifications, or the empty function (part_000:317-319).
unsubscribe ==
    /\ subPc \in {"subscribed", "fallback"}
    /\ subPc' = IF subPc = "subscribed" THEN "unsubscribed" ELSE subPc
    /\ UNCHANGED <<wRequests, redeemPeriod, height, handlers, expired, callCount, firedAt>>
    /\ UNCHANGED <<engineVars, statusVars, execVars, hexVars, subsVars, replaceVars>>

NextWatch ==
    \/ subscribe
    \/ newHead
    \/ \E h \in 1..MaxHeight : mapForUser(h)
    \/ \E h \in 1..MaxHeight : forEachRequest(h)
    \/ unsubscribe

SpecWatch == InitWatch /\ [][NextWatch]_vars

\* ------------------------------------------------ Several subscriptions
MaxSubs == 2        \* calls of subscribeToRedeemExpiry on the same account

InitSubscriptions ==
    EngineInit /\ StatusIdle /\ WatchInit /\ ExecIdle /\ HexIdle /\ SubsIdle /\ ReplaceIdle

\* part_000:299  const expired = new Set(): a local of the call
NewSet == {}

\* part_000:298-312  a call of subscribeToRedeemExpiry whose subscription is
\* established: it is notified of the heads after mHeight.
subscribeToRedeemExpiry ==
    /\ Len(subscriptions) < MaxSubs
    /\ subscriptions' = Append(subscriptions,
                               [expired |-> NewSet, seen |-> mHeight,
                                calls |-> [id \in ReqIds |-> 0]])
    /\ UNCHANGED mHeight
    /\ UNCHANGED <<engineVars, statusVars, watchVars, execVars, hexVars, replaceVars>>

\* The ledger finalizes a head.
finalizedHead ==
    /\ mHeight < MaxHeight
    /\ mHeight' = mHeight + 1
    /\ UNCHANGED subscriptions
    /\ UNCHANGED <<engineVars, statusVars, watchVars, execVars, hexVars, replaceVars>>

\* part_000:301-311  the handler of subscription s runs for its next head:
\* one of its queries throws, or the loop over the requests runs with the Set
\* of this subscription.
evaluateHead(s) ==
    /\ s \in 1..Len(subscriptions)
    /\ subscriptions[s].seen < mHeight
    /\ LET h == subscriptions[s].seen + 1
           mine == subscriptions[s].expired
           fire == {id \in ReqIds :
                      /\ PastPeriod(wRequests[id], redeemPeriod, h)
                      /\ ~Has(mine, KeyObject(id, <<s, h>>))}
       IN  \/ subscriptions' = [subscriptions EXCEPT ![s].seen = h]
           \/ subscriptions' =
                  [subscriptions EXCEPT
                      ![s].seen = h,
                      ![s].expired = mine \cup {KeyObject(id, <<s, h>>) : id \in fire},
                      ![s].calls = [id \in ReqIds |->
                                       IF id \in fire THEN @[id] + 1 ELSE @[id]]]
    /\ UNCHANGED mHeight
    /\ UNCHANGED <<engineVars, statusVars, watchVars, execVars, hexVars, replaceVars>>

NextSubscriptions ==
    \/ subscribeToRedeemExpiry
    \/ finalizedHead
    \/ \E s \in 1..MaxSubs : evaluateHead(s)

SpecSubscriptions == InitSubscriptions /\ [][NextSubscriptions]_vars

\* ------------------------------------------- Other submitting operations
MaxEvents == 2      \* events in the result of one execute transaction

RedeemOps == {"redeem.requestAdvanced", "redeem.execute", "redeem.cancel", "redeem.burn"}
ProofOps == {"refund.execute", "replace.execute"}

\* btcTxId: not passed, or the id of a transaction the Bitcoin index knows or
\* does not know; merkleProof and rawTx: passed or not.
ExecArgs == [btcTxId : {"none", "found", "unknown"}, merkleProof : BOOLEAN, rawTx : BOOLEAN]
NoArgs == [btcTxId |-> "none", merkleProof |-> FALSE, rawTx |-> FALSE]

EventNames == {"redeem.ExecuteRedeem", "redeem.RequestRedeem", "system.ExtrinsicSuccess"}
EventLists == UNION {[1..n -> EventNames] : n \in 0..MaxEvents}

JsTrue == [kind |-> "boolean", text |-> "true"]
JsFalse == [kind |-> "boolean", text |-> "false"]
JsArray(n) == [kind |-> "array", text |-> IF n = 0 THEN "[]" ELSE "[...]"]

\* part_000:183, 209, 230, 250, 259  the rejection of a call without account
AccountError(op) ==
    IF op = "redeem.execute" THEN ErrorObj("cannot execute without setting account")
    ELSE ACCOUNT_NOT_SET_ERROR_MESSAGE

\* The instance method sendLogged of DefaultTransactionAPI, with which the
\* refund and replace operations submit: it rejects when no account is set.
TransactionAccountError == ErrorObj(ACCOUNT_NOT_SET_ERROR_MESSAGE.text)

ConfigurationErrors ==
    {ACCOUNT_NOT_SET_ERROR_MESSAGE, TransactionAccountError,
     ErrorObj("cannot execute without setting account")}

\* getTxProof(electrsAPI, btcTxId, merkleProof, rawTx): an explicit pair is
\* returned as passed; otherwise the pair is looked up by btcTxId; it throws
\* when neither is there and when the lookup fails.
ProofErrors == {ErrorObj("ProofResolutionError"), ErrorObj("ProofLookupFailed")}
getTxProof(args) ==
    IF args.merkleProof /\ args.rawTx
    THEN [ok |-> TRUE, proof |-> "explicit", lookup |-> FALSE, error |-> NoValue]
    ELSE IF args.btcTxId = "none"
    THEN [ok |-> FALSE, proof |-> "none", lookup |-> FALSE,
          error |-> ErrorObj("ProofResolutionError")]
    ELSE IF args.btcTxId = "found"
    THEN [ok |-> TRUE, proof |-> "looked up", lookup |-> TRUE, error |-> NoValue]
    ELSE [ok |-> FALSE, proof |-> "none", lookup |-> TRUE,
          error |-> ErrorObj("ProofLookupFailed")]

\* Mutant: the transaction is sent whatever getTxProof did.
SendWithoutProof(r) == "sendLogged"

\* refund.ts:60-62, part_001:149-151  a throw of the awaited getTxProof ends
\* execute before the transaction is built.
AfterGetTxProof(r) == IF r.ok THEN "sendLogged" ELSE "rejected"

\* part_000:177-179 and 238  the ids of the redeem.RequestRedeem events
CountEvents(evs, name) == Cardinality({i \in 1..Len(evs) : evs[i] = name})
getRedeemIdsFromEvents(evs) == CountEvents(evs, "redeem.RequestRedeem")

\* part_000:238-245  the outcome of execute after sendLogged returned
ExecuteOutcome(evs) ==
    LET ids == getRedeemIdsFromEvents(evs)
    IN  IF ids > 1
        THEN [pc |-> "rejected",
              value |-> ErrorObj("Unexpected multiple redeem events from single execute transaction!")]
        ELSE IF ids = 1 THEN [pc |-> "resolved", value |-> JsTrue]
        ELSE [pc |-> "resolved", value |-> JsFalse]

\* part_000:203-211, 228-232, 248-252, 257-261, refund.ts:58-60,
\* part_001:147-149  the call, up to its first await.
call ==
    /\ xPc = "idle"
    /\ \E op \in RedeemOps \cup ProofOps, args \in ExecArgs :
        /\ op \in RedeemOps => args = NoArgs
        /\ xOp' = op
        /\ xArgs' = args
        /\ IF op \in ProofOps
           THEN /\ xPc' = "getTxProof"
                /\ UNCHANGED xResult
           ELSE IF ~account
           THEN /\ xPc' = "rejected"
                /\ xResult' = AccountError(op)
           ELSE /\ xPc' = "sendLogged"
                /\ UNCHANGED xResult
    /\ UNCHANGED <<xProof, xCalls, xSent, xEvents>>
    /\ UNCHANGED <<engineVars, statusVars, watchVars, hexVars, subsVars, replaceVars>>

\* refund.ts:60, part_001:149  await getTxProof(...)
resolveProof ==
    /\ xPc = "getTxProof"
    /\ LET r == getTxProof(xArgs)
       IN  /\ xProof' = r.proof
           /\ xCalls' = IF r.lookup THEN Append(xCalls, "proofLookup") ELSE xCalls
           /\ xPc' = AfterGetTxProof(r)
           /\ xResult' = IF r.ok THEN xResult ELSE r.error
    /\ UNCHANGED <<xOp, xArgs, xSent, xEvents>>
    /\ UNCHANGED <<engineVars, statusVars, watchVars, hexVars, subsVars, replaceVars>>

\* The value a call resolves with after sendLogged returned evs.
Outcome(op, evs) ==
    IF op = "redeem.execute" THEN ExecuteOutcome(evs)
    ELSE IF op = "redeem.requestAdvanced"
    THEN [pc |-> "resolved", value |-> JsArray(getRedeemIdsFromEvents(evs))]
    ELSE [pc |-> "resolved", value |-> Undefined]

\* part_000:219-225, 233-246, 254, 263, refund.ts:61-62, part_001:150-151
\* the transaction is built and sent, and the call ends. Only requestAdvanced
\* catches what sendLogged throws; it then reads the records of the ids.
submit ==
    /\ xPc = "sendLogged"
    /\ IF xOp \in ProofOps /\ ~account
       THEN /\ xPc' = "rejected"
            /\ xResult' = TransactionAccountError
            /\ UNCHANGED <<xCalls, xSent, xEvents>>
       ELSE \E threw \in BOOLEAN, e \in LedgerErrors, evs \in EventLists :
            IF threw
            THEN /\ evs = <<>>
                 /\ xCalls' = Append(xCalls, "broadcast")
                 /\ xSent' = "threw"
                 /\ xPc' = "rejected"
                 /\ xResult' = IF xOp = "redeem.requestAdvanced" THEN CatchReject(e) ELSE e
                 /\ UNCHANGED xEvents
            ELSE /\ e = ErrorObj("TxRejected")
                 /\ xOp \notin {"redeem.execute", "redeem.requestAdvanced"} => evs = <<>>
                 /\ xCalls' = IF xOp = "redeem.requestAdvanced"
                               THEN xCalls \o <<"broadcast", "getRequestsById">>
                               ELSE Append(xCalls, "broadcast")
                 /\ xSent' = "returned"
                 /\ xEvents' = evs
                 /\ xPc' = Outcome(xOp, evs).pc
                 /\ xResult' = Outcome(xOp, evs).value
    /\ UNCHANGED <<xOp, xArgs, xProof>>
    /\ UNCHANGED <<engineVars, statusVars, watchVars, hexVars, subsVars, replaceVars>>

NextExec ==
    \/ call
    \/ resolveProof
    \/ submit

SpecExecute == Init /\ [][NextExec]_vars

\* ----------------------------------------------- DefaultReplaceAPI.request
\* The events of the transaction: their name, and the id the event carries
\* in event.data[0].
ReplaceEventNames ==
    {"replace.RequestReplace", "replace.WithdrawReplace", "system.ExtrinsicSuccess"}
ReplaceEvents == [name : ReplaceEventNames, id : 1..MaxEvents]
ReplaceEventLists == UNION {[1..n -> ReplaceEvents] : n \in 0..MaxEvents}

\* part_001:127  hash.toString(): one string per hash value
HashText == <<"0x01", "0x02", "0x03", "0x04">>
HashToString(id) == Str(HashText[id])

RequestReplaceAt(evs) == {i \in 1..Len(evs) : evs[i].name = "replace.RequestReplace"}

\* Mutant: the id of the last RequestReplace event is returned.
getLastRequestId(evs) ==
    LET at == RequestReplaceAt(evs)
    IN  IF at = {}
        THEN [ok |-> FALSE, id |-> 0, error |-> ErrorObj("Request transaction failed")]
        ELSE [ok |-> TRUE, id |-> evs[CHOOSE i \in at : \A j \in at : j <= i].id,
              error |-> NoValue]

\* part_001:111-119  the id of the first RequestReplace event; throws when
\* the events hold none.
getRequestIdFromEvents(evs) ==
    LET at == RequestReplaceAt(evs)
    IN  IF at = {}
        THEN [ok |-> FALSE, id |-> 0, error |-> ErrorObj("Request transaction failed")]
        ELSE [ok |-> TRUE, id |-> evs[CHOOSE i \in at : \A j \in at : i <= j].id,
              error |-> NoValue]

\* part_001:121-123  request(amount), up to the await of getGriefingCollateral
replaceRequest ==
    /\ rPc = "idle"
    /\ \E amt \in Amounts : rAmount' = amt
    /\ rPc' = "getGriefingCollateral"
    /\ UNCHANGED <<rEvents, rResult>>
    /\ UNCHANGED <<engineVars, statusVars, watchVars, execVars, hexVars, subsVars>>

\* part_001:123-124  getGriefingCollateral returns and the transaction is
\* built, or it throws: the await is outside the try block.
getGriefingCollateral ==
    /\ rPc = "getGriefingCollateral"
    /\ \/ /\ rPc' = "sendLogged"
          /\ UNCHANGED rResult
       \/ /\ rPc' = "rejected"
          /\ rResult' = ErrorObj("QueryFailed")
    /\ UNCHANGED <<rAmount, rEvents>>
    /\ UNCHANGED <<engineVars, statusVars, watchVars, execVars, hexVars, subsVars>>

\* part_001:125-130  sendLogged, outside the try block, throws or returns the
\* events; the id is read from them inside the try block, whose catch
\* rejects with e.message.
replaceSubmit ==
    /\ rPc = "sendLogged"
    /\ IF ~account
       THEN /\ rPc' = "rejected"
            /\ rResult' = TransactionAccountError
            /\ UNCHANGED rEvents
       ELSE \E threw \in BOOLEAN, e \in LedgerErrors, evs \in ReplaceEventLists :
            IF threw
            THEN /\ evs = <<>>
                 /\ rPc' = "rejected"
                 /\ rResult' = e
                 /\ UNCHANGED rEvents
            ELSE /\ e = ErrorObj("TxRejected")
                 /\ rEvents' = evs
                 /\ LET r == getRequestIdFromEvents(evs)
                    IN  IF r.ok
                        THEN /\ rPc' = "resolved"
                             /\ rResult' = HashToString(r.id)
                        ELSE /\ rPc' = "rejected"
                             /\ rResult' = CatchReject(r.error)
    /\ UNCHANGED rAmount
    /\ UNCHANGED <<engineVars, statusVars, watchVars, execVars, hexVars, subsVars>>

NextReplace ==
    \/ setAccount
    \/ replaceRequest
    \/ getGriefingCollateral
    \/ replaceSubmit

SpecReplace == Init /\ [][NextReplace]_vars

\* ---------------------------------------------------------- stripHexPrefix
MaxLen == 4         \* strings are at most MaxLen characters long

Chars == {"0", "x", "a"}
HexDigits == {"0", "a"}
Strings == UNION {[1..n -> Chars] : n \in 0..MaxLen}

HasHexPrefix(s) == Len(s) >= 2 /\ s[1] = "0" /\ s[2] = "x"

\* A hex string: hex digits, with or without the prefix 0x.
IsHexString(s) ==
    \A i \in 1..Len(s) : s[i] \in HexDigits \/ (HasHexPrefix(s) /\ i = 2)

\* Mutant: the first two characters are dropped whatever they are.
stripFirstTwo(s) == SubSeq(s, 3, Len(s))

\* stripHexPrefix(str): str without its leading 0x, str itself when it has none.
stripHexPrefix(s) == IF HasHexPrefix(s) THEN SubSeq(s, 3, Len(s)) ELSE s

\* Any string is passed.
HexInit ==
    /\ hexIn \in Strings
    /\ hexOnce = <<>>
    /\ hexTwice = <<>>
    /\ hexDone = 0

InitHex == EngineInit /\ StatusIdle /\ WatchIdle /\ ExecIdle /\ HexInit /\ SubsIdle
    /\ ReplaceIdle

\* encoding.test.ts:39  stripHexPrefix(blockHashHexBEWithPrefix)
strip ==
    /\ hexDone = 0
    /\ hexOnce' = stripHexPrefix(hexIn)
    /\ hexDone' = 1
    /\ UNCHANGED <<hexIn, hexTwice>>
    /\ UNCHANGED <<engineVars, statusVars, watchVars, execVars, subsVars, replaceVars>>

\* stripHexPrefix applied to the string it returned
stripAgain ==
    /\ hexDone = 1
    /\ hexTwice' = stripHexPrefix(hexOnce)
    /\ hexDone' = 2
    /\ UNCHANGED <<hexIn, hexOnce>>
    /\ UNCHANGED <<engineVars, statusVars, watchVars, execVars, subsVars, replaceVars>>

NextHex ==
    \/ strip
    \/ stripAgain

SpecHex == InitHex /\ [][NextHex]_vars

\* ------------------------------------------------------------- claims
RECURSIVE SumAlloc(_)
SumAlloc(alloc) == IF alloc = <<>> THEN 0 ELSE Head(alloc).amount + SumAlloc(Tail(alloc))

\* The allocator threw in the current round: the call rejected with an
\* account and before the round's submission.
AllocatorThrew == pc = "rejected" /\ account /\ Len(subLog) < round

\* C1: whenever the total capacity covers the amount of a round, the allocation
\* sums exactly to that amount, its entries follow the order of the vault list,
\* and no entry exceeds the capacity of its vault.
C1_AllocationSound ==
    /\ AllocatorThrew => SumCaps(availableVaults) < amountSat
    /\ pc = "send" =>
        /\ SumAlloc(amountsPerVault) = amountSat
        /\ \A i \in 1..Len(amountsPerVault) :
            /\ amountsPerVault[i].vault \in 1..Len(availableVaults)
            /\ amountsPerVault[i].amount <= availableVaults[amountsPerVault[i].vault]
        /\ \A i, j \in 1..Len(amountsPerVault) :
            i < j => amountsPerVault[i].vault < amountsPerVault[j].vault

C1_Witness ==
    /\ pc = "send"
    /\ Len(amountsPerVault) = 2
    /\ amountsPerVault[2].amount < availableVaults[amountsPerVault[2].vault]

\* C2: when the total capacity is below the requested amount the allocator
\* throws and leaves no allocation, and request() rejects without any
\* transaction having been broadcast.
C2_InsufficientCapacityRejects ==
    (account /\ pc \notin {"idle", "discover"} /\ SumCaps(availableVaults) < amount0) =>
        /\ pc = "rejected"
        /\ amountsPerVault = <<>>
        /\ broadcasts = 0
        /\ created = <<>>

C2_Witness ==
    /\ pc = "rejected"
    /\ account
    /\ 0 < SumCaps(availableVaults)
    /\ SumCaps(availableVaults) < amount0

\* A rank of the states of a call: the retries left and the position within
\* the round, then the requests the finalized head still lacks.
CallRank ==
    CASE pc \in {"resolved", "rejected"} -> 0
      [] pc = "fetch" -> 3 * retries + 1
      [] pc = "send" -> 3 * retries + 2
      [] pc = "discover" -> 3 * retries + 3
      [] OTHER -> 3 * MaxRetries + 4

Rank ==
    (MaxVaults + 1) * CallRank + (Len(created) - finalizedUpTo)
        + (IF account THEN 0 ELSE 1)

\* The bound of C3: with retries = N at most N + 1 submissions are made, each
\* round uses up one retry, the call returns at the first round whose
\* remainder is 0 or when no retries remain, and a call under way can always
\* take its next step.
C3_RoundsBounded ==
    retries0 >= 0 =>
        /\ broadcasts <= retries0 + 1
        /\ Len(subLog) = broadcasts
        /\ pc \in {"send", "fetch", "resolved"} => round + retries = retries0 + 1
        /\ pc = "resolved" =>
            \/ subLog[Len(subLog)].fulfilled = subLog[Len(subLog)].target
            \/ retries = 0
        /\ \A k \in 1..Len(subLog) - 1 :
            subLog[k].fulfilled # subLog[k].target
        /\ Rank >= 0
        /\ pc \in {"discover", "send", "fetch"} => ENABLED (discover \/ sendLogged \/ fetch)

\* C3: with retries = N at most N + 1 submission rounds occur, and the call
\* always terminates: it stops at the first round whose remainder is 0 or when
\* the retries are used up. Every step lowers the rank, which is never
\* negative, so no call runs forever.
C3_RetryBound ==
    /\ []C3_RoundsBounded
    /\ [][Rank' < Rank]_vars

C3_Witness ==
    /\ pc = "resolved"
    /\ retries0 >= 1
    /\ broadcasts = retries0 + 1

\* C4: in atomic mode a batch in which a sub-request fails creates nothing on
\* the ledger, and the submission rejects with no result.
C4_AtomicAllOrNothing ==
    \A k \in 1..Len(subLog) :
        (atomic /\ subLog[k].failed > 0) =>
            /\ subLog[k].thrown
            /\ k = Len(subLog) /\ pc = "rejected"
            /\ \A id \in 1..Len(created) : created[id].round # k
            /\ \A i \in 1..Len(results) : created[results[i].id].round # k

C4_Witness ==
    /\ atomic
    /\ pc = "rejected"
    /\ Len(subLog) >= 1
    /\ subLog[Len(subLog)].failed > 0
    /\ subLog[Len(subLog)].failed < subLog[Len(subLog)].entries

\* C5: after a submission that succeeded, the pairs returned are as many as the
\* non-zero entries of the allocation (atomic) or as the sub-requests that
\* succeeded (non-atomic), and their ids are exactly those the transaction
\* created.
C5_ReturnedMatchesCreated ==
    \A k \in 1..Len(subLog) :
        (~subLog[k].thrown /\ subLog[k].fetched) =>
            /\ subLog[k].returned = subLog[k].entries - subLog[k].failed
            /\ atomic => subLog[k].returned = subLog[k].nonzero
            /\ {results[i].id : i \in {j \in 1..Len(results) : created[results[j].id].round = k}}
                   = {id \in 1..Len(created) : created[id].round = k}
            /\ Cardinality({j \in 1..Len(results) : created[results[j].id].round = k})
                   = subLog[k].returned

C5_Witness ==
    /\ ~atomic
    /\ pc = "resolved"
    /\ \E k \in 1..Len(subLog) :
        /\ subLog[k].failed > 0
        /\ subLog[k].returned > 0
    /\ \E k \in 1..Len(subLog) : subLog[k].returned = 2

\* C6: a submission that throws makes the call reject at once, whatever
\* retries remain; a further round follows only a submission that succeeded
\* and left a shortfall.
C6_SubmissionFailureAborts ==
    /\ \A k \in 1..Len(subLog) :
        subLog[k].thrown => (k = Len(subLog) /\ pc = "rejected" /\ broadcasts = k)
    /\ \A k \in 1..Len(subLog) - 1 :
        /\ ~subLog[k].thrown
        /\ subLog[k].fetched
        /\ subLog[k].fulfilled < subLog[k].target

C6_Witness ==
    /\ pc = "rejected"
    /\ Len(subLog) = 1
    /\ subLog[1].thrown
    /\ retries >= 1

\* C7: a request tagged Completed, Reimbursed or Retried has that status for
\* every opentime, period, global period and block number.
C7_TerminalStatusKept ==
    (sResult # "none" /\ sReq.status \in {"Completed", "Reimbursed", "Retried"}) =>
        sResult = sReq.status

C7_Witness ==
    /\ sResult = "Reimbursed"
    /\ sHeight >= sReq.opentime + Max(sReq.period, sGlobalPeriod)

\* C8: a request tagged Pending is Expired exactly when the block number has
\* reached opentime + max(period, global period), the deadline block included,
\* and PendingWithBtcTxNotFound otherwise.
C8_PendingExpiresAtDeadline ==
    (sResult # "none" /\ sReq.status = "Pending") =>
        /\ sResult = "Expired" <=>
               sHeight >= sReq.opentime + Max(sReq.period, sGlobalPeriod)
        /\ sResult # "Expired" => sResult = "PendingWithBtcTxNotFound"

C8_Witness ==
    /\ sResult = "Expired"
    /\ sReq.status = "Pending"
    /\ sReq.period > sGlobalPeriod
    /\ sHeight = sReq.opentime + sReq.period

\* The first block at which the Status Resolver derives Expired for a request.
Deadline(req) == req.opentime + Max(req.period, redeemPeriod)

\* C9: within one subscription the callback is invoked at most once per
\* request id, and exactly once when a head at or past the request's deadline
\* has been evaluated.
C9_CallbackOncePerId ==
    \A id \in ReqIds :
        /\ callCount[id] <= 1
        /\ (\E h \in 1..MaxHeight : handlers[h] = "done" /\ h >= Deadline(wRequests[id])
                                    /\ wRequests[id].status = "Pending")
               => callCount[id] = 1

\* C10: the callback is invoked for a request only at a head where the
\* Status Resolver derives Expired for it: never for a terminal tag and never
\* before opentime + max(period, global period).
C10_FiresOnlyWhenExpired ==
    \A f \in firedAt :
        parseRedeemRequestStatus(wRequests[f.id], redeemPeriod, f.height) = "Expired"

\* C11: without a signing account every submitting operation fails with the
\* account error before any network call: no proof lookup, no ledger query and
\* no broadcast is made, and the call ends rejected with that error.
C11_NoAccountNoNetwork ==
    (~account /\ xOp # "none") =>
        /\ xCalls = <<>>
        /\ xPc \in {"resolved", "rejected"} =>
            (xPc = "rejected" /\ xResult \in ConfigurationErrors)

\* C12: when sendLogged throws E, the call of request() rejects with E itself.
C12_SubmissionErrorVerbatim ==
    \A k \in 1..Len(subLog) :
        subLog[k].thrown => (pc = "rejected" /\ rejection = subLog[k].error)

\* C13: execute rejects with an error when the events of its transaction hold
\* no ExecuteRedeem event or more than one, and resolves only when they hold
\* exactly one.
C13_ExecuteCorrelation ==
    (xOp = "redeem.execute" /\ xSent = "returned") =>
        LET n == CountEvents(xEvents, "redeem.ExecuteRedeem")
        IN  /\ n # 1 => (xPc = "rejected" /\ xResult.kind = "Error")
            /\ xPc = "resolved" => n = 1

\* C14: when the last round allowed by the retries was submitted successfully
\* and left a shortfall, request() resolves with the pairs of all rounds, whose
\* amounts sum to the requested amount less the shortfall.
C14_PartialFulfilmentResolves ==
    (/\ retries0 >= 0
     /\ Len(subLog) = retries0 + 1
     /\ subLog[Len(subLog)].fetched
     /\ subLog[Len(subLog)].fulfilled < subLog[Len(subLog)].target) =>
        LET last == subLog[Len(subLog)]
        IN  /\ pc = "resolved"
            /\ rejection = NoValue
            /\ SumAmountBtc(results) = amount0 - (last.target - last.fulfilled)
            /\ SumAmountBtc(results) < amount0
            /\ {results[i].id : i \in 1..Len(results)} \subseteq 1..Len(created)
            /\ \A k \in 1..Len(subLog) :
                Cardinality({i \in 1..Len(results) : created[results[i].id].round = k})
                    = subLog[k].returned

C14_Witness ==
    /\ pc = "resolved"
    /\ Len(subLog) = 2
    /\ subLog[2].fulfilled < subLog[2].target
    /\ Len(results) >= 1

\* C15: a submission in which no sub-request succeeded, or an atomic one in
\* which one failed, is rejected, and no submission returns an empty list.
C15_NeverResolvesEmpty ==
    \A k \in 1..Len(subLog) :
        /\ (subLog[k].failed = subLog[k].entries \/ (atomic /\ subLog[k].failed > 0))
               => subLog[k].thrown
        /\ subLog[k].fetched => subLog[k].returned > 0

\* C16: when subscribeFinalizedHeads fails, subscribeToRedeemExpiry still
\* resolves, with a function that does nothing, and the callback is never
\* invoked: no head is ever evaluated.
C16_SubscribeFailureIsNoOp ==
    /\ subPc # "rejected"
    /\ subPc = "fallback" =>
        /\ height = 0
        /\ firedAt = {}
        /\ \A id \in ReqIds : callCount[id] = 0
        /\ \A h \in 1..MaxHeight : handlers[h] = "none"
        /\ ~ENABLED newHead

C16_Witness ==
    /\ subPc = "fallback"
    /\ \E id \in ReqIds :
        /\ wRequests[id].status = "Pending"
        /\ Deadline(wRequests[id]) = 0

\* C17: no invocation of the callback happens after unsubscribe was called.
C17_NoCallbackAfterUnsubscribe ==
    \A f \in firedAt : f.subPc # "unsubscribed"

\* Neither the payment id nor the explicit pair yields a proof.
Unresolvable(args) == ~(args.merkleProof /\ args.rawTx) /\ args.btcTxId # "found"

\* C18: execute of refund and replace rejects with the error of the proof
\* resolution, without any broadcast, when neither btcTxId nor the pair
\* (merkleProof, rawTx) yields a proof; a transaction is only sent after the
\* proof was resolved.
C18_ProofBeforeSubmission ==
    xOp \in ProofOps =>
        /\ (Unresolvable(xArgs) /\ xPc # "getTxProof") =>
            /\ xPc = "rejected"
            /\ xResult \in ProofErrors
            /\ xSent = "no"
            /\ \A i \in 1..Len(xCalls) : xCalls[i] # "broadcast"
        /\ (xPc = "sendLogged" \/ xSent # "no") => xProof # "none"
        /\ \A i, j \in 1..Len(xCalls) :
            (xCalls[i] = "broadcast" /\ xCalls[j] = "proofLookup") => j < i

C18_Witness ==
    /\ xOp = "refund.execute"
    /\ account
    /\ xPc = "rejected"
    /\ xArgs.btcTxId = "none"
    /\ xArgs.merkleProof
    /\ ~xArgs.rawTx

\* C19: a field left out of the options (or no options at all) reads as
\* atomic = false and retries = 0; with retries left out one round is
\* submitted and the call resolves with its pairs whatever the shortfall; the
\* vaults are discovered exactly when no list came with the options.
C19_OptionDefaults ==
    pc # "idle" =>
        /\ (~options.defined \/ "atomic" \notin options.given) => ~atomic
        /\ (~options.defined \/ "retries" \notin options.given) =>
            /\ retries0 = 0
            /\ broadcasts <= 1
            /\ (Len(subLog) = 1 /\ subLog[1].fetched) =>
                (pc = "resolved" /\ Len(results) = subLog[1].returned)
            /\ pc = "resolved" => broadcasts = 1
        /\ supplied <=> (options.defined /\ "availableVaults" \in options.given)
        /\ discoveries = IF account /\ ~supplied /\ pc # "discover" THEN 1 ELSE 0

C19_Witness ==
    /\ ~options.defined
    /\ pc = "resolved"
    /\ ~atomic
    /\ discoveries = 1
    /\ subLog[1].returned >= 1
    /\ subLog[1].fulfilled < subLog[1].target

\* C20: for a hex string, stripHexPrefix returns the string without its
\* leading 0x, or the string itself when it has no such prefix, and applying
\* it to its own result changes nothing.
C20_StripIdempotent ==
    IsHexString(hexIn) =>
        /\ hexDone >= 1 =>
            /\ HasHexPrefix(hexIn) => <<"0", "x">> \o hexOnce = hexIn
            /\ ~HasHexPrefix(hexIn) => hexOnce = hexIn
            /\ ~HasHexPrefix(hexOnce)
        /\ hexDone = 2 => hexTwice = hexOnce

C20_Witness ==
    /\ hexDone = 2
    /\ IsHexString(hexIn)
    /\ HasHexPrefix(hexIn)
    /\ Len(hexIn) = MaxLen

\* C21: the allocation of a round is greedy in the order of the vault list:
\* every vault used before the last one gets its full capacity, the last one
\* gets what is still missing (at least 1, at most its capacity), a vault with
\* capacity 0 gets no entry, no vault with capacity before the last one used
\* is passed over, and no vault after it gets an entry.
C21_GreedyInOrder ==
    pc = "send" =>
        LET n == Len(amountsPerVault)
            used == {amountsPerVault[i].vault : i \in 1..n}
            lastUsed == amountsPerVault[n].vault
        IN  /\ n >= 1
            /\ \A i \in 1..n - 1 :
                amountsPerVault[i].amount = availableVaults[amountsPerVault[i].vault]
            /\ amountsPerVault[n].amount
                   = amountSat - SumAlloc(SubSeq(amountsPerVault, 1, n - 1))
            /\ amountsPerVault[n].amount >= 1
            /\ amountsPerVault[n].amount <= availableVaults[lastUsed]
            /\ \A v \in 1..Len(availableVaults) :
                /\ availableVaults[v] = 0 => v \notin used
                /\ (v < lastUsed /\ availableVaults[v] > 0) => v \in used
                /\ v > lastUsed => v \notin used

C21_Witness ==
    /\ pc = "send"
    /\ Len(availableVaults) = 2
    /\ availableVaults[1] = 0
    /\ Len(amountsPerVault) = 1
    /\ amountsPerVault[1].vault = 2
    /\ amountsPerVault[1].amount < availableVaults[2]

RECURSIVE SumCreated(_)
SumCreated(recs) == IF recs = <<>> THEN 0 ELSE Head(recs).amount_btc + SumCreated(Tail(recs))

\* C22: the amounts of the redeem requests one call created on the ledger,
\* over all its rounds, never exceed the amount the call was asked for.
C22_CreatedWithinRequested == SumCreated(created) <= amount0

\* C23: a call that rejected created no redeem request, and a call that
\* resolved returns every redeem request it created.
C23_RejectedCreatedNothing ==
    /\ pc = "rejected" => created = <<>>
    /\ pc = "resolved" =>
        \A id \in 1..Len(created) : \E i \in 1..Len(results) : results[i].id = id

\* C24: the target of every round is positive, every allocated amount is
\* positive, the amount fulfilled in a round lies between 0 and its target (so
\* does the remainder), and no amount on the ledger or in the results is
\* negative.
C24_AmountsNonNegative ==
    /\ pc # "idle" => amountSat > 0
    /\ \A i \in 1..Len(amountsPerVault) : amountsPerVault[i].amount > 0
    /\ \A k \in 1..Len(subLog) :
        /\ subLog[k].target > 0
        /\ subLog[k].fulfilled >= 0
        /\ subLog[k].target - subLog[k].fulfilled >= 0
        /\ subLog[k].target - subLog[k].fulfilled <= subLog[k].target
    /\ \A id \in 1..Len(created) :
        created[id].requested > 0 /\ created[id].amount_btc >= 0
    /\ \A i \in 1..Len(results) : results[i].redeemRequest.amount_btc >= 0

C24_Witness ==
    /\ Len(subLog) = 2
    /\ subLog[1].fulfilled >= 1
    /\ subLog[2].target >= 1
    /\ subLog[2].fetched

\* C25: when the call resolves, the amounts of the pairs returned plus the
\* remainder of the last round make up the amount asked for; with a last
\* remainder of 0 the pairs returned sum to exactly that amount.
C25_ResultsPlusRemainder ==
    pc = "resolved" =>
        LET last == subLog[Len(subLog)]
        IN  /\ SumAmountBtc(results) + (last.target - last.fulfilled) = amount0
            /\ last.target = last.fulfilled => SumAmountBtc(results) = amount0

C25_Witness ==
    /\ pc = "resolved"
    /\ Len(subLog) = 2
    /\ subLog[2].fulfilled = subLog[2].target
    /\ \E i, j \in 1..Len(results) :
        created[results[i].id].round = 2 /\ created[results[j].id].round = 1

\* C26: a round is allocated and submitted only when every earlier round was
\* submitted and its records fetched; its target is the remainder of the round
\* before it; at no time are two rounds under way.
C26_RoundsSequential ==
    /\ pc = "send" =>
        /\ Len(subLog) = round - 1
        /\ \A k \in 1..Len(subLog) : subLog[k].fetched
    /\ pc = "fetch" =>
        /\ Len(subLog) = round
        /\ \A k \in 1..round - 1 : subLog[k].fetched
    /\ \A k \in 1..Len(subLog) - 1 :
        subLog[k + 1].target = subLog[k].target - subLog[k].fulfilled
    /\ Cardinality({k \in 1..Len(subLog) : ~subLog[k].fetched /\ ~subLog[k].thrown}) <= 1

C26_Witness ==
    /\ pc = "send"
    /\ round = 2
    /\ amountSat < amount0
    /\ subLog[1].returned >= 1

\* C27: in the list of results the pairs of a later round come before those
\* of every earlier round.
C27_MostRecentRoundFirst ==
    \A i, j \in 1..Len(results) :
        i < j => created[results[i].id].round >= created[results[j].id].round

C27_Witness ==
    /\ pc = "resolved"
    /\ Len(results) >= 2
    /\ created[results[1].id].round = 2
    /\ created[results[Len(results)].id].round = 1

\* C28: every round of a call uses the vault list and the atomicity flag of
\* its first round; the vaults are discovered at most once per call, and not
\* at all when the caller passed a list.
C28_SameVaultsEveryRound ==
    /\ \A k \in 1..Len(subLog) :
        /\ subLog[k].vaults = subLog[1].vaults
        /\ subLog[k].atomic = subLog[1].atomic
        /\ subLog[k].atomic = AtomicOf(options)
    /\ discoveries <= 1
    /\ supplied => discoveries = 0

C28_Witness ==
    /\ Len(subLog) = 2
    /\ atomic
    /\ discoveries = 1
    /\ Len(availableVaults) = 2

\* C29: each call of requestAdvanced broadcasts one transaction, a batch with
\* one call per entry of the allocation, in atomic and in non-atomic mode; once
\* round k was submitted exactly k transactions were broadcast.
C29_OneBroadcastPerSubmission ==
    /\ broadcasts = Len(subLog)
    /\ pc \in {"fetch", "resolved"} => broadcasts = round
    /\ pc = "send" => broadcasts = round - 1
    /\ \A k \in 1..Len(subLog) :
        /\ subLog[k].calls = subLog[k].entries
        /\ subLog[k].thrown => broadcasts = k

C29_Witness ==
    /\ pc = "fetch"
    /\ atomic
    /\ subLog[1].calls = 2

\* C30: an atomic call whose redeem requests are all confirmed for the amount
\* requested submits at most one round, whatever its retries.
C30_AtomicSingleRound ==
    (atomic /\ \A id \in 1..Len(created) : created[id].amount_btc = created[id].requested)
        => broadcasts <= 1

\* C31: whatever integer is passed as retries, negative ones included, the
\* retry budget of every round is at least 0 and the call makes at most
\* max(retries, 0) + 1 rounds, so it ends.
C31_RetryBudgetNonNegative ==
    /\ pc \in {"discover", "send", "fetch"} => retries >= 0
    /\ round <= Max(retries0, 0) + 1

\* C32: the event type requestAdvanced passes to sendLogged as the event to
\* await is the event type it decodes the ids of the new requests from, the
\* request-created event of the redeem module.
C32_AwaitedEventIsDecoded ==
    \A k \in 1..Len(subLog) :
        /\ subLog[k].awaited = subLog[k].decoded
        /\ subLog[k].awaited = "redeem.RequestRedeem"

\* C33: in every pair returned the record is the one the ledger holds under
\* the id of the pair, whatever the order of the events, and the records of
\* one submission are all read at one finalized head h: ids the head holds
\* give their record, the others the default record.
C33_PairsMatchLedger ==
    \A k \in 1..Len(subLog) :
        subLog[k].fetched =>
            \E h \in 0..Len(created) :
                \A i \in 1..Len(results) :
                    created[results[i].id].round = k =>
                        results[i].redeemRequest =
                            IF results[i].id <= h
                            THEN [vault |-> created[results[i].id].vault,
                                  amount_btc |-> created[results[i].id].amount_btc]
                            ELSE DefaultRedeemRequest

C33_Witness ==
    /\ pc = "resolved"
    /\ \E i, j \in 1..Len(results) :
        /\ i < j
        /\ results[i].id > results[j].id
        /\ created[results[i].id].round = created[results[j].id].round
        /\ results[i].redeemRequest.vault = 2
        /\ results[j].redeemRequest.vault = 1

\* C34: when the evaluation of a head completes, every request of the account
\* the Status Resolver derives Expired at that height had its callback invoked
\* by that evaluation, requests whose deadline passed before the subscription
\* included.
C34_NoExpiredRequestSkipped ==
    \A h \in 1..MaxHeight :
        handlers[h] = "done" =>
            \A id \in ReqIds :
                parseRedeemRequestStatus(wRequests[id], redeemPeriod, h) = "Expired"
                    => \E f \in firedAt : f.id = id /\ f.height = h

C34_Witness ==
    /\ handlers[1] = "done"
    /\ \E id \in ReqIds :
        /\ wRequests[id].status = "Pending"
        /\ Deadline(wRequests[id]) = 1
        /\ redeemPeriod = 1
        /\ \E f \in firedAt : f.id = id /\ f.height = 1

\* C35: an error raised by the evaluation of a head is caught and logged, the
\* ids notified before it stay in the set, and the heads after it are still
\* evaluated.
C35_HandlerErrorCaughtAndLogged ==
    /\ \A h \in 1..MaxHeight :
        handlers[h] \in {"none", "mapForUser", "getRedeemPeriod", "done", "logged"}
    /\ \A f \in firedAt : Has(expired, KeyObject(f.id, f.height))

\* C36: when the handler of a head resumes after the handler of a later head,
\* started while it was suspended, has notified an id, it does not notify
\* that id again.
C36_OncePerIdWhenOverlapping ==
    [][\A h \in 1..MaxHeight, id \in ReqIds :
          (/\ handlers[h] = "getRedeemPeriod"
           /\ handlers'[h] = "done"
           /\ \E f \in firedAt : f.id = id /\ f.height > h)
              => ~(\E g \in firedAt' : g.id = id /\ g.height = h)]_vars

\* C37: the Set of notified ids belongs to one subscription: it holds only
\* the keys its own handler added, it is empty until that handler has
\* notified an id, and each subscription invokes its callback at most once
\* per id, whatever the other subscriptions did.
C37_OwnSetOncePerId ==
    \A s \in 1..Len(subscriptions) :
        /\ \A k \in subscriptions[s].expired : k.ref[1] = s
        /\ (\A id \in ReqIds : subscriptions[s].calls[id] = 0)
               => subscriptions[s].expired = {}
        /\ \A id \in ReqIds : subscriptions[s].calls[id] <= 1

\* C38: for a pending request at a given block, no global period above the
\* one used turns PendingWithBtcTxNotFound into Expired, and with a global
\* period at or below the request's own period the status is the one the own
\* period alone gives.
C38_GlobalPeriodOnlyExtends ==
    (sResult # "none" /\ sReq.status = "Pending") =>
        /\ \A g \in Periods :
            (g >= sGlobalPeriod /\ sResult = "PendingWithBtcTxNotFound")
                => parseRedeemRequestStatus(sReq, g, sHeight) = "PendingWithBtcTxNotFound"
        /\ sGlobalPeriod <= sReq.period =>
            sResult = IF sHeight >= sReq.opentime + sReq.period
                      THEN "Expired"
                      ELSE "PendingWithBtcTxNotFound"

C38_Witness ==
    /\ sReq.status = "Pending"
    /\ sResult = "PendingWithBtcTxNotFound"
    /\ sGlobalPeriod > sReq.period
    /\ sHeight >= sReq.opentime + sReq.period

\* C39: the replace request resolves with the id of the first RequestReplace
\* event of its transaction, an id one of its events carries, and rejects
\* with "Request transaction failed" exactly when sendLogged returned events
\* holding no such event.
C39_FirstRequestReplaceId ==
    /\ rPc = "resolved" =>
        /\ RequestReplaceAt(rEvents) # {}
        /\ \A i \in RequestReplaceAt(rEvents) :
            (\A j \in RequestReplaceAt(rEvents) : i <= j)
                => rResult = HashToString(rEvents[i].id)
        /\ \E i \in 1..Len(rEvents) : rResult = HashToString(rEvents[i].id)
    /\ (rPc = "rejected" /\ rResult = Str("Request transaction failed"))
           => RequestReplaceAt(rEvents) = {}
    /\ (rEvents # <<>> /\ RequestReplaceAt(rEvents) = {}) =>
        (rPc = "rejected" /\ rResult = Str("Request transaction failed"))

C39_Witness ==
    /\ rPc = "resolved"
    /\ Len(rEvents) = 2
    /\ rEvents[1].name = "replace.RequestReplace"
    /\ rEvents[2].name = "replace.RequestReplace"
    /\ rEvents[1].id # rEvents[2].id
    /\ rResult = HashToString(rEvents[1].id)

====
